---- MODULE Spec2Model ----
(***************************************************************************)
(* Model of src/client.py (GPIOMonitor): the debounced pin-change tracker, *)
(* the per-event delivery threads, and the process lifecycle (setup,       *)
(* probe, idle loop, signal handler, cleanup, interpreter exit).           *)
(*                                                                         *)
(* Time is an integer number of milliseconds.  time.time() is the epoch    *)
(* clock, so the clock starts far above any debounce window (StartTime)    *)
(* while last_interrupt_time starts at 0 (line 136).  The clock is taken   *)
(* to be non-decreasing.                                                   *)
(*                                                                         *)
(* A callback of one pin is one atomic step: OPi.GPIO runs the callbacks   *)
(* of a pin on that pin's own event thread, one at a time, and the         *)
(* callback reads and writes only that pin's dictionary entries.           *)
(***************************************************************************)
EXTENDS Integers, Sequences, FiniteSets, TLC

\* ---- bounds of the model ----
MaxDebounce == 2
MaxCallbacks == 3
MaxThreads == 2

\* ---- configuration (lines 35-47, 59-62) ----
\* self.pins: the configured pins, in order (two of the four defaults).
pins == <<"PC12", "PI11">>
PinSet == {pins[i] : i \in 1..Len(pins)}
\* time.strftime('%Y-%m-%d %H:%M:%S') (line 191) has a resolution of one
\* second; the clock counts milliseconds.
MsPerSecond == 1000
\* time.time() when setup_gpio runs: the epoch clock, beyond every window,
\* here one millisecond before the end of a second.
StartTime == 2 * MsPerSecond - 1
MaxTime == StartTime + MaxDebounce

\* lastCb.read is the set of levels the callback read (empty when it returned
\* before line 162).
NoCallback == [pin |-> "none", at |-> 0, read |-> {},
               verdict |-> "none", n |-> 0]

VARIABLES
    debounce_time,        \* self.debounce_time (ms), fixed at construction
    now,                  \* time.time() in ms
    pin_states,           \* self.pin_states: dict pin -> level
    pin_timestamps,       \* self.pin_timestamps: dict pin -> time
    last_interrupt_time,  \* self.last_interrupt_time: dict pin -> time
    event_detect,         \* pins with a registered change subscription
    gpio_released,        \* GPIO.cleanup() has completed
    running,              \* self.running
    main_pc,              \* position of the main thread
    cleanup_calls,        \* number of calls of cleanup()
    threads,              \* the delivery threads, in order of their start
    initial_state,        \* history: level captured by setup_gpio per pin
    captured_at,          \* history: time of that capture per pin
    setup_result,         \* history: what setup_gpio's loop body did per pin
    lastCb                \* history: the last raw change callback processed

vars == <<debounce_time, now, pin_states, pin_timestamps, last_interrupt_time,
          event_detect, gpio_released, running, main_pc,
          cleanup_calls, threads, initial_state, captured_at,
          setup_result, lastCb>>

trackerVars == <<pin_states, pin_timestamps, last_interrupt_time>>
mainVars == <<event_detect, gpio_released, running, main_pc,
              cleanup_calls>>
histVars == <<initial_state, captured_at, setup_result>>

\* dict.get(key, default)
Get(d, k, default) == IF k \in DOMAIN d THEN d[k] ELSE default
\* d[k] = v
Put(d, k, v) == [x \in (DOMAIN d) \cup {k} |-> IF x = k THEN v ELSE d[x]]
EmptyDict == [x \in {} |-> 0]

\* ---- lifecycle of the process, read off the main thread's position ----
Lifecycle ==
    CASE main_pc \in {"setup_gpio", "test_server_connection"} -> "INITIALIZING"
      [] main_pc = "loop" -> "RUNNING"
      [] main_pc \in {"finally", "exit"} -> "SHUTTING_DOWN"
      [] main_pc = "exited" -> "TERMINATED"

Init ==
    /\ debounce_time \in {0, MaxDebounce}
    /\ now = StartTime
    /\ pin_states = EmptyDict
    /\ pin_timestamps = EmptyDict
    /\ last_interrupt_time = EmptyDict
    /\ event_detect = {}
    /\ gpio_released = FALSE
    /\ running = TRUE
    /\ main_pc = "setup_gpio"
    /\ cleanup_calls = 0
    /\ threads = <<>>
    /\ initial_state = EmptyDict
    /\ captured_at = EmptyDict
    /\ setup_result = [p \in PinSet |-> "none"]
    /\ lastCb = NoCallback

\* The threads stop working once the signal handler has cleared self.running.
process_alive_while_running == running /\ main_pc # "exited"

\* The process lives until the interpreter exits; the daemon threads and the
\* callback threads run as long as it lives, whatever self.running says.
process_alive == main_pc # "exited"

\* ---- the clock ----
Tick ==
    /\ main_pc \notin {"setup_gpio", "exited"}
    /\ now < MaxTime
    /\ now' = now + 1
    /\ UNCHANGED <<debounce_time, trackerVars, mainVars, threads, histVars, lastCb>>

\* ---- setup_gpio (lines 120-148) ----
\* What the loop body does for one pin:
\*   "ok"            lines 130-141 all succeed
\*   "acquire_error" GPIO.setup or GPIO.input raises (lines 130, 133):
\*                   nothing is recorded for the pin
\*   "detect_error"  GPIO.add_event_detect raises (line 139): the state is
\*                   recorded, there is no subscription
\* Every exception is caught at line 145 and the loop goes on.
SetupResults == {"ok", "acquire_error", "detect_error"}

\* the pins for which lines 133-136 ran
captured(result) == {p \in PinSet : result[p] \in {"ok", "detect_error"}}

\* The try statement encloses the whole loop: the first exception ends it.
subscribed_until_error(result) ==
    {pins[j] : j \in {i \in 1..Len(pins) :
                        \A k \in 1..i : result[pins[k]] = "ok"}}

\* the pins for which line 139 succeeded
subscribed(result) == {p \in PinSet : result[p] = "ok"}

setup_gpio ==
    /\ main_pc = "setup_gpio"
    /\ \E result \in [PinSet -> SetupResults], level \in [PinSet -> BOOLEAN] :
         /\ pin_states' = [p \in captured(result) |-> level[p]]
         /\ pin_timestamps' = [p \in captured(result) |-> now]
         /\ last_interrupt_time' = [p \in captured(result) |-> 0]
         /\ event_detect' = subscribed(result)
         /\ initial_state' = [p \in captured(result) |-> level[p]]
         /\ captured_at' = [p \in captured(result) |-> now]
         /\ setup_result' = result
    /\ main_pc' = "test_server_connection"
    /\ UNCHANGED <<debounce_time, now, gpio_released, running,
                   cleanup_calls, threads, lastCb>>

\* ---- run (lines 254-262): the startup probe, every outcome caught ----
test_server_connection ==
    /\ main_pc = "test_server_connection"
    /\ main_pc' = "loop"
    /\ UNCHANGED <<debounce_time, now, trackerVars, event_detect, gpio_released,
                   running, cleanup_calls, threads,
                   histVars, lastCb>>

\* ---- pin_change_callback (lines 150-182) ----
\* The stored time is not found and the default 0 is used.
time_since_last_default(channel, current_time) == current_time - 0

\* line 155, in ms
time_since_last(channel, current_time) ==
    current_time - Get(last_interrupt_time, channel, 0)

\* The dwell is taken from the last interrupt instead of the last change.
time_diff_ms_interrupt(channel, current_time) ==
    current_time - Get(last_interrupt_time, channel, 0)

\* line 168, in ms
time_diff_ms(channel, current_time) ==
    current_time - pin_timestamps[channel]

\* The comparison is dropped: every callback past the window is processed.
state_changed_always(new_state, old_state) == TRUE

\* line 166
state_changed(new_state, old_state) == new_state # old_state

\* where a delivery thread stands
Finished(t) == t.pc = "done"
InFlight(t) == t.pc \in {"start", "connect", "sendall", "recv"}
Blocked(t) == t.pc \in {"connect", "sendall", "recv"}
Failed(t) == Finished(t) /\ t.outcome \notin {"ok", "warning"}

\* The thread is handed old_state instead of new_state.
new_thread_old_level(channel, new_state, diff, current_time) ==
    [pin |-> channel, state |-> pin_states[channel], time_diff_ms |-> diff,
     accepted_at |-> current_time, pc |-> "start", sock |-> "none",
     attempts |-> 0, outcome |-> "none", timestamp |-> 0]

\* lines 176-178: threading.Thread(target=self.send_data_to_server,
\* args=(channel, new_state, time_diff_ms), daemon=True).start()
new_thread(channel, new_state, diff, current_time) ==
    [pin |-> channel, state |-> new_state, time_diff_ms |-> diff,
     accepted_at |-> current_time, pc |-> "start", sock |-> "none",
     attempts |-> 0, outcome |-> "none", timestamp |-> 0]

\* Line 181 is missing: the tracked level is never updated.
accepted_pin_states_stale(channel, new_state) == pin_states

\* lines 181-182
accepted_pin_states(channel, new_state) ==
    [pin_states EXCEPT ![channel] = new_state]

accepted_pin_timestamps(channel, current_time) ==
    [pin_timestamps EXCEPT ![channel] = current_time]

\* One time of the last interrupt is kept for all pins instead of one per pin.
passed_last_interrupt_time_shared(channel, current_time) ==
    [p \in (DOMAIN last_interrupt_time) \cup {channel} |-> current_time]

\* line 159
passed_last_interrupt_time(channel, current_time) ==
    Put(last_interrupt_time, channel, current_time)

\* lines 155-157: inside the window, return before anything is read or written
pin_change_debounced(channel) ==
    /\ time_since_last(channel, now) < debounce_time
    /\ lastCb' = [pin |-> channel, at |-> now, read |-> {},
                  verdict |-> "debounced", n |-> lastCb.n + 1]
    /\ UNCHANGED <<trackerVars, threads>>

\* lines 159-166 with new_state = old_state: only line 159 has an effect
pin_change_same_level(channel, new_state) ==
    /\ ~(time_since_last(channel, now) < debounce_time)
    /\ ~state_changed(new_state, Get(pin_states, channel, new_state))
    /\ last_interrupt_time' = passed_last_interrupt_time(channel, now)
    /\ lastCb' = [pin |-> channel, at |-> now, read |-> {new_state},
                  verdict |-> "same", n |-> lastCb.n + 1]
    /\ UNCHANGED <<pin_states, pin_timestamps, threads>>

\* lines 159-182 with new_state # old_state
pin_change_accepted(channel, new_state) ==
    /\ ~(time_since_last(channel, now) < debounce_time)
    /\ state_changed(new_state, Get(pin_states, channel, new_state))
    /\ Len(threads) < MaxThreads
    /\ last_interrupt_time' = passed_last_interrupt_time(channel, now)
    /\ threads' = Append(threads,
                         new_thread(channel, new_state, time_diff_ms(channel, now), now))
    /\ pin_states' = accepted_pin_states(channel, new_state)
    /\ pin_timestamps' = accepted_pin_timestamps(channel, now)
    /\ lastCb' = [pin |-> channel, at |-> now, read |-> {new_state},
                  verdict |-> "accepted", n |-> lastCb.n + 1]

pin_change_callback(channel) ==
    /\ process_alive
    /\ channel \in event_detect
    /\ lastCb.n < MaxCallbacks
    /\ \/ pin_change_debounced(channel)
       \/ \E new_state \in BOOLEAN : pin_change_same_level(channel, new_state)
       \/ \E new_state \in BOOLEAN : pin_change_accepted(channel, new_state)
    /\ UNCHANGED <<debounce_time, now, mainVars, histVars>>

\* ---- send_data_to_server (lines 184-232): one thread per accepted event ----
ConnectErrors == {"refused", "timeout", "gaierror", "error"}
IOErrors == {"timeout", "error"}
Replies == {"OK", "ERR"}

\* The deliveries go through one worker: a thread waits for the earlier ones.
runnable_serialized(i) ==
    /\ threads[i].pc = "start"
    /\ \A j \in 1..(i - 1) : ~InFlight(threads[j])

\* The deliveries of one pin are kept in order: a thread waits for the earlier
\* threads of its pin.
runnable_in_pin_order(i) ==
    /\ threads[i].pc = "start"
    /\ \A j \in 1..(i - 1) :
          threads[j].pin = threads[i].pin => ~InFlight(threads[j])

\* A started thread runs as soon as it is scheduled: no thread waits for
\* another (lines 176-178 start each one on its own).
runnable(i) == threads[i].pc = "start"

\* The failed delivery is tried again.
on_exception_retry(t, cls) == [t EXCEPT !.pc = "connect", !.outcome = cls]

\* lines 225-232: every exception class is caught and logged; the function
\* returns, and nothing is sent again.
on_exception(t, cls) == [t EXCEPT !.pc = "done", !.outcome = cls]

\* The exception escapes the thread and takes the process down.
thread_fails_propagating(i, t, cls) ==
    /\ threads' = [threads EXCEPT ![i] = [t EXCEPT !.pc = "done", !.outcome = cls]]
    /\ main_pc' = "exit"
    /\ UNCHANGED <<event_detect, gpio_released, running,
                   cleanup_calls, trackerVars>>

\* lines 194-232: the try statement catches Exception, so the failure stays
\* inside the thread.
thread_fails(i, t, cls) ==
    /\ threads' = [threads EXCEPT ![i] = on_exception(t, cls)]
    /\ UNCHANGED <<mainVars, trackerVars>>

\* lines 217-223: log by reply, then s.close()
on_reply(t, reply) ==
    [t EXCEPT !.pc = "done", !.sock = "closed",
              !.outcome = IF reply = "OK" THEN "ok" ELSE "warning"]

\* time.strftime('%Y-%m-%d %H:%M:%S', time.localtime(t)): the second that
\* holds t
strftime(t) == t \div MsPerSecond

\* lines 186-200: build the record (line 191 formats the time of this moment,
\* time.strftime without a time argument) and create the socket
thread_run(i) ==
    /\ process_alive
    /\ runnable(i)
    /\ threads' = [threads EXCEPT ![i] = [@ EXCEPT !.pc = "connect",
                                                 !.timestamp = strftime(now)]]
    /\ UNCHANGED <<debounce_time, now, trackerVars, mainVars, histVars, lastCb>>

\* line 203: s.connect
connect(i) ==
    /\ process_alive
    /\ threads[i].pc = "connect"
    /\ LET t == [threads[i] EXCEPT !.attempts = @ + 1] IN
         \/ /\ threads' = [threads EXCEPT ![i] = [t EXCEPT !.pc = "sendall", !.sock = "open"]]
            /\ UNCHANGED <<mainVars, trackerVars>>
         \/ \E cls \in ConnectErrors : thread_fails(i, t, cls)
    /\ UNCHANGED <<debounce_time, now, histVars, lastCb>>

\* lines 209-212: s.sendall
sendall(i) ==
    /\ process_alive
    /\ threads[i].pc = "sendall"
    /\ \/ /\ threads' = [threads EXCEPT ![i] = [@ EXCEPT !.pc = "recv"]]
          /\ UNCHANGED <<mainVars, trackerVars>>
       \/ \E cls \in IOErrors : thread_fails(i, threads[i], cls)
    /\ UNCHANGED <<debounce_time, now, histVars, lastCb>>

\* lines 215-223: s.recv, the reply, s.close
recv(i) ==
    /\ process_alive
    /\ threads[i].pc = "recv"
    /\ \/ /\ \E reply \in Replies :
               threads' = [threads EXCEPT ![i] = on_reply(@, reply)]
          /\ UNCHANGED <<mainVars, trackerVars>>
       \/ \E cls \in IOErrors : thread_fails(i, threads[i], cls)
    /\ UNCHANGED <<debounce_time, now, histVars, lastCb>>

\* ---- cleanup (lines 241-252) ----
\* The call that raises: k in 1..Len(pins) is remove_event_detect of pins[k],
\* Len(pins)+1 is GPIO.cleanup(), Len(pins)+2 is no exception at all.  The
\* exception is caught (line 251).
CleanupOutcomes == 1..(Len(pins) + 2)

cleanup_event_detect(k) ==
    IF k = Len(pins) + 2 THEN {}
    ELSE event_detect \ {pins[j] : j \in {x \in 1..Len(pins) : x < k}}

cleanup_gpio_released(k) == gpio_released \/ k = Len(pins) + 2

cleanup(k) ==
    /\ event_detect' = cleanup_event_detect(k)
    /\ gpio_released' = cleanup_gpio_released(k)
    /\ cleanup_calls' = cleanup_calls + 1

\* ---- signal_handler (lines 234-239), installed at lines 70-71 ----
\* sys.exit(0) raises SystemExit in the main thread: inside run's try
\* statement it passes through the finally clause, elsewhere it ends the
\* process directly.
\* sys.exit(0) is missing: the handler returns to the code it interrupted.
after_signal_returns(pc) == IF pc = "loop" THEN "finally" ELSE pc

\* line 239: where SystemExit takes the main thread from position pc
after_signal(pc) == IF pc = "loop" THEN "finally" ELSE "exit"

signal_handler ==
    /\ main_pc \in {"setup_gpio", "test_server_connection", "loop"}
    /\ running' = FALSE
    /\ \E k \in CleanupOutcomes : cleanup(k)
    /\ main_pc' = after_signal(main_pc)
    /\ UNCHANGED <<debounce_time, now, trackerVars, threads,
                   histVars, lastCb>>

\* ---- run (lines 263-270): the finally clause ----
run_finally ==
    /\ main_pc = "finally"
    /\ \E k \in CleanupOutcomes : cleanup(k)
    /\ main_pc' = "exit"
    /\ UNCHANGED <<debounce_time, now, trackerVars, running,
                   threads, histVars, lastCb>>

\* ---- interpreter exit: daemon threads (line 178) are stopped abruptly ----
\* The threads were started without daemon=True: the exit joins them.
exit_waits_for_nondaemon(t) == InFlight(t)

\* line 178, daemon=True: the interpreter does not join the thread at exit
exit_waits_for(t) == FALSE

at_exit(t) == IF Finished(t) THEN t ELSE [t EXCEPT !.pc = "killed"]

process_exit ==
    /\ main_pc = "exit"
    /\ \A i \in DOMAIN threads : ~exit_waits_for(threads[i])
    /\ main_pc' = "exited"
    /\ threads' = [i \in DOMAIN threads |-> at_exit(threads[i])]
    /\ event_detect' = {}
    /\ UNCHANGED <<debounce_time, now, trackerVars, gpio_released, running,
                   cleanup_calls, histVars, lastCb>>

Next ==
    \/ Tick
    \/ setup_gpio
    \/ test_server_connection
    \/ \E channel \in PinSet : pin_change_callback(channel)
    \/ \E i \in DOMAIN threads : thread_run(i)
    \/ \E i \in DOMAIN threads : connect(i)
    \/ \E i \in DOMAIN threads : sendall(i)
    \/ \E i \in DOMAIN threads : recv(i)
    \/ signal_handler
    \/ run_finally
    \/ process_exit

Spec == Init /\ [][Next]_vars

\* The tracker with the lifecycle around it: the delivery threads are started
\* and recorded, their network steps are left out (they are daemon threads
\* that the scheduler need not run, and they write no tracker variable).
NextTracker ==
    \/ Tick
    \/ setup_gpio
    \/ test_server_connection
    \/ \E channel \in PinSet : pin_change_callback(channel)
    \/ signal_handler
    \/ run_finally
    \/ process_exit

SpecTracker == Init /\ [][NextTracker]_vars

\* The deliveries with the tracker and the lifecycle around them, all within
\* one reading of the clock: no step of a delivery thread reads the clock
\* after the record is built.
NextDelivery ==
    \/ setup_gpio
    \/ test_server_connection
    \/ \E channel \in PinSet : pin_change_callback(channel)
    \/ \E i \in DOMAIN threads : thread_run(i)
    \/ \E i \in DOMAIN threads : connect(i)
    \/ \E i \in DOMAIN threads : sendall(i)
    \/ \E i \in DOMAIN threads : recv(i)
    \/ signal_handler
    \/ run_finally
    \/ process_exit

SpecDelivery == Init /\ [][NextDelivery]_vars

\* The tracker, the clock and the first step of each delivery, the one that
\* builds the record: the only step of a delivery that reads the clock.
NextTimestamp ==
    \/ Tick
    \/ setup_gpio
    \/ test_server_connection
    \/ \E channel \in PinSet : pin_change_callback(channel)
    \/ \E i \in DOMAIN threads : thread_run(i)
    \/ signal_handler
    \/ run_finally
    \/ process_exit

SpecTimestamp == Init /\ [][NextTimestamp]_vars

\* The lifecycle with stalled deliveries: a delivery waits to be scheduled,
\* is blocked in connect, fails there, or is connected to a collector that
\* never reads, so that it stays blocked in sendall.
NextShutdown ==
    \/ setup_gpio
    \/ test_server_connection
    \/ \E channel \in PinSet : pin_change_callback(channel)
    \/ \E i \in DOMAIN threads : thread_run(i)
    \/ \E i \in DOMAIN threads : connect(i)
    \/ signal_handler
    \/ run_finally
    \/ process_exit

\* The scheduling the main thread has: it is never suspended for ever, so
\* the finally clause and the exit of the interpreter are taken once they are
\* reached.  Nothing is assumed of the delivery threads (a delivery may stall
\* for ever) nor of the signal (it may never come).
SpecShutdown ==
    /\ Init
    /\ [][NextShutdown]_vars
    /\ WF_vars(run_finally)
    /\ WF_vars(process_exit)

\* ======================= properties =======================

ThreadsOf(p) == {i \in DOMAIN threads : threads[i].pin = p}
HasAccepted(p) == ThreadsOf(p) # {}
LastThreadOf(p) == CHOOSE i \in ThreadsOf(p) : \A j \in ThreadsOf(p) : j <= i
LastAcceptedAt(p) == threads[LastThreadOf(p)].accepted_at
\* this step is a raw change callback of pin p
CallbackStep(p) == lastCb'.n # lastCb.n /\ lastCb'.pin = p

\* C1: a callback of a pin that arrives strictly less than debounce_time after
\* the pin's last accepted transition starts no delivery (produces no event)
\* and leaves the pin's tracked level unchanged.
C1_InsideWindowDiscarded ==
    [][\A p \in PinSet :
          (/\ HasAccepted(p)
           /\ now - LastAcceptedAt(p) < debounce_time
           /\ CallbackStep(p))
          => /\ threads' = threads
             /\ pin_states'[p] = pin_states[p]
             /\ lastCb'.verdict = "debounced"]_vars

\* A transition of a pin was accepted, a later callback of the same pin came
\* at a later time still inside the window and was discarded; the tracked
\* level is still the accepted one.
C1_Witness ==
    \E p \in PinSet :
        /\ HasAccepted(p)
        /\ lastCb.pin = p
        /\ lastCb.verdict = "debounced"
        /\ lastCb.at > LastAcceptedAt(p)
        /\ lastCb.at - LastAcceptedAt(p) < debounce_time
        /\ pin_states[p] = threads[LastThreadOf(p)].state

\* C2 (as claimed): a callback of a pin that arrives at least debounce_time
\* after the pin's last accepted transition is not discarded by the debounce
\* step, and is accepted when the level it reads differs from the tracked
\* level, whatever callbacks were discarded in between.
C2_WindowFromLastAccepted ==
    [][\A p \in PinSet :
          (/\ HasAccepted(p)
           /\ now - LastAcceptedAt(p) >= debounce_time
           /\ CallbackStep(p))
          => /\ lastCb'.verdict # "debounced"
             /\ (lastCb'.read # {pin_states[p]} => lastCb'.verdict = "accepted")]_vars

\* the reference point of the dwell of thread i: the previous accepted
\* transition of the same pin, or the initial capture
PrevThreadsOf(i) == {j \in ThreadsOf(threads[i].pin) : j < i}
DwellReference(i) ==
    IF PrevThreadsOf(i) = {} THEN captured_at[threads[i].pin]
    ELSE threads[CHOOSE j \in PrevThreadsOf(i) : \A k \in PrevThreadsOf(i) : k <= j].accepted_at

\* C3: the dwell reported for every accepted transition is >= 0 and is the
\* time from the previous accepted transition of that pin (or from the
\* initial capture) to the acceptance, whatever callbacks were discarded.
C3_DwellSincePreviousAccepted ==
    \A i \in DOMAIN threads :
        /\ threads[i].time_diff_ms >= 0
        /\ threads[i].time_diff_ms = threads[i].accepted_at - DwellReference(i)

\* The only captured pin had a callback discarded and then a transition
\* accepted at a later time than the capture: the dwell is positive and
\* counted from the capture.
C3_Witness ==
    \E p \in PinSet :
        /\ DOMAIN pin_states = {p}
        /\ Len(threads) = 1
        /\ lastCb.n = 2
        /\ lastCb.verdict = "accepted"
        /\ last_interrupt_time[p] = threads[1].accepted_at
        /\ threads[1].time_diff_ms > 0
        /\ threads[1].time_diff_ms = threads[1].accepted_at - captured_at[p]

\* C4: a callback whose level read equals the pin's tracked level starts no
\* delivery and produces no event.
C4_SameLevelNoEvent ==
    [][\A p \in PinSet :
          (/\ CallbackStep(p)
           /\ lastCb'.read = {pin_states[p]})
          => /\ threads' = threads
             /\ lastCb'.verdict = "same"]_vars

\* A callback past the window read the tracked level of a pin that already
\* had an accepted transition; no delivery was added for it.
C4_Witness ==
    \E p \in PinSet :
        /\ lastCb.pin = p
        /\ lastCb.verdict = "same"
        /\ lastCb.read = {pin_states[p]}
        /\ HasAccepted(p)
        /\ lastCb.n = Len(threads) + 1

\* C5: the tracked level of every acquired pin is the new level of the pin's
\* most recent accepted transition, or the level captured by setup_gpio when
\* none was accepted.
C5_LevelIsLastAccepted ==
    \A p \in DOMAIN pin_states :
        pin_states[p] = IF HasAccepted(p) THEN threads[LastThreadOf(p)].state
                        ELSE initial_state[p]

\* A pin's transition was accepted and a later callback of that pin was
\* suppressed: the tracked level is the accepted one, not the initial one.
C5_Witness ==
    \E p \in PinSet :
        /\ HasAccepted(p)
        /\ lastCb.pin = p
        /\ lastCb.verdict = "debounced"
        /\ pin_states[p] = threads[LastThreadOf(p)].state
        /\ pin_states[p] # initial_state[p]

\* one step of delivery thread i
ThreadStep(i) == thread_run(i) \/ connect(i) \/ sendall(i) \/ recv(i)
\* this step is an accepted raw change callback
AcceptStep == \E p \in PinSet : CallbackStep(p) /\ lastCb'.verdict = "accepted"
\* the callback of pin p, taken now, would pass the window and the bounds
CanAccept(p) ==
    /\ p \in event_detect
    /\ lastCb.n < MaxCallbacks
    /\ Len(threads) < MaxThreads
    /\ time_since_last(p, now) >= debounce_time

\* C6: every accepted transition starts exactly one delivery thread, nothing
\* else starts one; a thread makes at most one connection attempt, and once
\* it has ended (whatever the outcome) it never acts again.
C6_OneUnitOneAttempt ==
    [][/\ AcceptStep =>
            /\ Len(threads') = Len(threads) + 1
            /\ \A i \in DOMAIN threads : threads'[i] = threads[i]
            /\ threads'[Len(threads')].pin = lastCb'.pin
            /\ {threads'[Len(threads')].state} = lastCb'.read
       /\ ~AcceptStep => Len(threads') = Len(threads)
       /\ \A i \in DOMAIN threads :
            /\ threads'[i].attempts <= 1
            /\ threads'[i].attempts >= threads[i].attempts
            /\ (Finished(threads[i]) => threads'[i] = threads[i])]_vars

\* Two transitions were accepted; the delivery of the first got the reply
\* "ERR", the delivery of the second was refused; each made one attempt.
C6_Witness ==
    /\ Len(threads) = 2
    /\ threads[1].outcome = "warning" /\ threads[1].attempts = 1
    /\ threads[2].outcome = "refused" /\ threads[2].attempts = 1
    /\ Finished(threads[1]) /\ Finished(threads[2])

\* this step ends thread i with a transport failure
FailStep(i) == ~Finished(threads[i]) /\ Failed(threads'[i])

\* C7: a transport failure of a delivery changes nothing outside its own
\* thread: the lifecycle, the subscriptions, the tracker state and the other
\* threads are as before; and while the process lives, after a failure every
\* other delivery in flight can take its next step and the tracker can still
\* accept a transition.
C7_FailureStaysInside ==
    /\ [][\A i \in DOMAIN threads :
             FailStep(i) =>
                /\ main_pc' = main_pc
                /\ running' = running
                /\ event_detect' = event_detect
                /\ UNCHANGED trackerVars
                /\ \A j \in DOMAIN threads \ {i} : threads'[j] = threads[j]]_vars
    /\ [](\A i \in DOMAIN threads :
             (Failed(threads[i]) /\ main_pc # "exited") =>
                /\ \A j \in DOMAIN threads : InFlight(threads[j]) => ENABLED ThreadStep(j)
                /\ \A p \in PinSet : CanAccept(p) => ENABLED (pin_change_callback(p) /\ AcceptStep))

\* In RUNNING, the delivery of the first accepted event of a pin has failed
\* (the connection timed out); the next event of the same pin has its own
\* delivery, which made its own attempt and got "OK", and the tracker can
\* accept a further transition.
C7_Witness ==
    /\ Len(threads) = 2
    /\ threads[1].outcome = "timeout" /\ threads[1].sock = "none"
    /\ Failed(threads[1])
    /\ threads[2].pin = threads[1].pin
    /\ threads[2].outcome = "ok" /\ threads[2].attempts = 1
    /\ main_pc = "loop"
    /\ event_detect # {}

\* C8: while a delivery is blocked in connect, write or read and the process
\* lives, every other delivery in flight can take its next step and the
\* tracker can accept a transition of any subscribed pin.
C8_StalledBlocksNothing ==
    \A i \in DOMAIN threads :
        (Blocked(threads[i]) /\ main_pc # "exited") =>
            /\ \A j \in DOMAIN threads \ {i} :
                  InFlight(threads[j]) => ENABLED ThreadStep(j)
            /\ \A p \in PinSet :
                  CanAccept(p) => ENABLED (pin_change_callback(p) /\ AcceptStep)

\* The delivery of the first accepted event of a pin is still blocked in its
\* read; the later event of the same pin has been accepted and its delivery
\* has completed with "OK".
C8_Witness ==
    /\ Len(threads) = 2
    /\ threads[1].pc = "recv"
    /\ threads[2].pin = threads[1].pin
    /\ threads[2].outcome = "ok"
    /\ main_pc = "loop"

\* C9 (as claimed): a delivery thread that opened a connection has closed it
\* when the thread has ended.
C9_ConnectionClosed ==
    \A i \in DOMAIN threads :
        (Finished(threads[i]) /\ threads[i].sock # "none") => threads[i].sock = "closed"

\* C10 (as claimed): no started delivery is killed by shutdown.
C10_NeverKilled ==
    \A i \in DOMAIN threads : threads[i].pc # "killed"

\* C10 (amended): the signal handler and cleanup do not cancel deliveries:
\* as long as the process lives no delivery is killed and every delivery in
\* flight can take its next step; only the exit of the interpreter stops the
\* deliveries still in flight.
C10_NotCancelledWhileAlive ==
    /\ main_pc # "exited" =>
          \A i \in DOMAIN threads :
              /\ threads[i].pc # "killed"
              /\ InFlight(threads[i]) => ENABLED ThreadStep(i)
    /\ main_pc = "exited" => \A i \in DOMAIN threads : ~InFlight(threads[i])

\* The signal handler and the finally clause have both run cleanup and a
\* delivery is still in flight, blocked in its read.
C10_Witness ==
    /\ main_pc = "exit"
    /\ ~running
    /\ cleanup_calls = 2
    /\ \E i \in DOMAIN threads : threads[i].pc = "recv"

\* C11: once the signal handler has run, the process eventually reaches
\* TERMINATED, with any number of deliveries stalled and with any error
\* raised inside cleanup.
C11_SignalLeadsToTerminated == (~running) ~> (Lifecycle = "TERMINATED")

\* The process has terminated although GPIO.cleanup() was never completed
\* (an unsubscription or the release raised in every call of cleanup) and
\* every delivery was still in flight when the interpreter exited.
C11_Witness ==
    /\ Lifecycle = "TERMINATED"
    /\ ~running
    /\ ~gpio_released
    /\ cleanup_calls = 2
    /\ Len(threads) = MaxThreads
    /\ \A i \in DOMAIN threads : threads[i].pc = "killed"

\* this step is the signal handler
SignalStep == running /\ ~running'

\* C12 (as claimed): the lifecycle moves only INITIALIZING -> RUNNING ->
\* SHUTTING_DOWN -> TERMINATED, one state after the other, and RUNNING is left
\* only by the signal handler.
C12_StrictOrder ==
    [][/\ Lifecycle' # Lifecycle =>
            <<Lifecycle, Lifecycle'>> \in {<<"INITIALIZING", "RUNNING">>,
                                          <<"RUNNING", "SHUTTING_DOWN">>,
                                          <<"SHUTTING_DOWN", "TERMINATED">>}
       /\ (Lifecycle = "RUNNING" /\ Lifecycle' # "RUNNING") => SignalStep]_vars

\* C12 (amended): the lifecycle never moves backwards and never returns to a
\* state; every step of the signal handler enters SHUTTING_DOWN, from RUNNING
\* or straight from INITIALIZING; RUNNING is entered only without a signal
\* and left only by the signal handler; TERMINATED is entered only from
\* SHUTTING_DOWN.
C12_OrderWithEarlySignal ==
    [][/\ Lifecycle' # Lifecycle =>
            <<Lifecycle, Lifecycle'>> \in {<<"INITIALIZING", "RUNNING">>,
                                          <<"INITIALIZING", "SHUTTING_DOWN">>,
                                          <<"RUNNING", "SHUTTING_DOWN">>,
                                          <<"SHUTTING_DOWN", "TERMINATED">>}
       /\ SignalStep <=> (/\ Lifecycle \in {"INITIALIZING", "RUNNING"}
                          /\ Lifecycle' = "SHUTTING_DOWN")
       /\ (Lifecycle = "RUNNING" /\ Lifecycle' # "RUNNING") => SignalStep]_vars

\* The process went through RUNNING (the finally clause ran the second
\* cleanup) and has terminated; while it was RUNNING one delivery failed and
\* another got its reply, and neither ended RUNNING.
C12_Witness ==
    /\ Lifecycle = "TERMINATED"
    /\ cleanup_calls = 2
    /\ \E i \in DOMAIN threads : Failed(threads[i])
    /\ \E i \in DOMAIN threads : threads[i].outcome = "ok"

\* the main thread has left cleanup for the last time
ShutdownComplete == main_pc = "exit"

\* C13 (as claimed): when shutdown completes, no change subscription is left
\* and GPIO.cleanup() has been completed, whatever setup_gpio achieved.
C13_AllReleasedAtShutdown ==
    ShutdownComplete => (event_detect = {} /\ gpio_released)

\* setup_gpio has run and no signal has been received
InitializedUnsignalled == running /\ main_pc \in {"test_server_connection", "loop"}

\* C14: whatever happened to the other pins in setup_gpio, a pin whose loop
\* body succeeded has its initial level captured and its subscription
\* registered, a pin whose acquisition failed has neither, and the main
\* thread goes on to the probe and from there to RUNNING.
C14_FailureSkipsOnlyThatPin ==
    /\ (running /\ main_pc # "setup_gpio") => InitializedUnsignalled
    /\ InitializedUnsignalled =>
          /\ \A p \in PinSet :
                /\ setup_result[p] = "ok" =>
                      /\ p \in DOMAIN pin_states
                      /\ p \in DOMAIN initial_state
                      /\ p \in DOMAIN pin_timestamps
                      /\ captured_at[p] = StartTime
                      /\ p \in event_detect
                /\ setup_result[p] = "acquire_error" =>
                      /\ p \notin DOMAIN pin_states
                      /\ p \notin event_detect
          /\ main_pc = "test_server_connection" =>
                ENABLED (test_server_connection /\ Lifecycle' = "RUNNING")

\* The acquisition of the first configured pin failed and the second pin was
\* set up; the agent is RUNNING and has accepted a transition of the second
\* pin.
C14_Witness ==
    /\ Lifecycle = "RUNNING"
    /\ running
    /\ setup_result[pins[1]] = "acquire_error"
    /\ setup_result[pins[2]] = "ok"
    /\ pins[2] \in event_detect
    /\ HasAccepted(pins[2])
    /\ pin_states[pins[2]] # initial_state[pins[2]]

\* C15 (as claimed): a callback that is discarded, by the window or because
\* it read the tracked level, leaves the pin's tracked level, last-change
\* time and last-interrupt time as they were.
C15_DiscardedWritesNothing ==
    [][\A p \in PinSet :
          (CallbackStep(p) /\ lastCb'.verdict # "accepted") =>
             /\ pin_states' = pin_states
             /\ pin_timestamps' = pin_timestamps
             /\ last_interrupt_time' = last_interrupt_time]_vars

\* the record of the delivery has been built (a timestamp is a second of the
\* epoch clock, never 0)
RecordBuilt(t) == t.timestamp # 0

\* C16 (as claimed): the timestamp of every record built is the formatted
\* time at which its transition was accepted, however late the delivery
\* thread builds the record.
C16_TimestampIsAcceptanceTime ==
    \A i \in DOMAIN threads :
        RecordBuilt(threads[i]) =>
            threads[i].timestamp = strftime(threads[i].accepted_at)

\* the record of delivery t has not been written to its connection yet
NotSent(t) == t.pc \in {"start", "connect", "sendall"}
\* the collector has received the record of delivery t and replied
Replied(t) == t.outcome \in {"ok", "warning"}

\* C17: nothing orders the deliveries of one pin: while the record of an
\* earlier transition has not been sent and the process lives, the delivery
\* of a later transition of the same pin can take each of its steps, and
\* once connected it can send its record first.
C17_NoOrderBetweenUnits ==
    \A i, j \in DOMAIN threads :
        (/\ i < j
         /\ threads[i].pin = threads[j].pin
         /\ NotSent(threads[i])
         /\ main_pc # "exited") =>
            /\ InFlight(threads[j]) => ENABLED ThreadStep(j)
            /\ threads[j].pc = "sendall" =>
                  ENABLED (sendall(j) /\ threads'[j].pc = "recv")

\* Two transitions of one pin were accepted one after the other; the
\* collector has received and answered the record of the second while the
\* record of the first, whose thread is connected, is still to be sent, and
\* can be sent now: the second arrives before the first.
C17_Witness ==
    /\ Len(threads) = 2
    /\ threads[1].pin = threads[2].pin
    /\ threads[1].accepted_at <= threads[2].accepted_at
    /\ threads[1].state # threads[2].state
    /\ threads[1].pc = "sendall"
    /\ Replied(threads[2]) /\ threads[2].sock = "closed"
    /\ ENABLED (sendall(1) /\ threads'[1].pc = "recv")

\* dictionaries d and e agree outside pin p
SameExcept(d, e, p) ==
    /\ (DOMAIN d) \ {p} = (DOMAIN e) \ {p}
    /\ \A q \in (DOMAIN d) \ {p} : d[q] = e[q]
\* this step is a step of a delivery thread
DeliveryStep == \E i \in DOMAIN threads : ThreadStep(i)

\* C18: a raw change callback of pin p, accepted or discarded, leaves the
\* tracked level, last-change time and last-interrupt time of every other pin
\* as they were; a step of a delivery thread changes no tracked state at all.
C18_OtherPinsUntouched ==
    [][/\ \A p \in PinSet :
             CallbackStep(p) =>
                /\ SameExcept(pin_states', pin_states, p)
                /\ SameExcept(pin_timestamps', pin_timestamps, p)
                /\ SameExcept(last_interrupt_time', last_interrupt_time, p)
       /\ DeliveryStep => UNCHANGED trackerVars]_vars

\* Both pins are subscribed; callbacks of one pin were processed, one of them
\* accepted, and its delivery has ended; the other pin's state is as
\* setup_gpio left it.
C18_Witness ==
    \E p, q \in PinSet :
        /\ p # q
        /\ {p, q} \subseteq event_detect
        /\ HasAccepted(p) /\ ~HasAccepted(q)
        /\ lastCb.pin = p /\ lastCb.n >= 2
        /\ last_interrupt_time[p] = now
        /\ Finished(threads[LastThreadOf(p)])
        /\ last_interrupt_time[q] = 0
        /\ pin_states[q] = initial_state[q]
        /\ pin_timestamps[q] = captured_at[q]

\* the level the event of thread i follows: the new level of the previous
\* accepted transition of the same pin, or the level captured by setup_gpio
LevelBefore(i) ==
    IF PrevThreadsOf(i) = {} THEN initial_state[threads[i].pin]
    ELSE threads[CHOOSE j \in PrevThreadsOf(i) : \A k \in PrevThreadsOf(i) : k <= j].state

\* C19: the new level of every accepted transition differs from the new
\* level of the accepted transition of the same pin before it, and that of
\* the first one from the level captured by setup_gpio.
C19_LevelsAlternate ==
    \A i \in DOMAIN threads : threads[i].state # LevelBefore(i)

\* Two transitions of one pin were accepted at different times, with a
\* discarded callback besides: the first left the captured level, the second
\* came back to it.
C19_Witness ==
    \E p \in PinSet :
        /\ ThreadsOf(p) = {1, 2}
        /\ threads[1].state # initial_state[p]
        /\ threads[2].state = initial_state[p]
        /\ threads[2].accepted_at > threads[1].accepted_at
        /\ lastCb.n = 3

\* C20 (as claimed): cleanup (the removal of the event detection of the pins,
\* then the release of the GPIO) is run at most once in the life of the
\* process.
C20_CleanupAtMostOnce == cleanup_calls <= 1

====
